---- MODULE Spec2Model ----
(***************************************************************************)
(* charoite: the install pipeline (src/src/install.rs), the remover        *)
(* (src/src/remove.rs) and the ledger of installed packages they share.    *)
(*                                                                         *)
(* An invocation of the program is a process p with a program counter;     *)
(* every blocking call of the code (an external command, a prompt, a file  *)
(* read or write) is one step, so that an interruption can fall between    *)
(* any two of them.  The file system is the ledger file                    *)
(* /etc/charoite/installed.yaml, the temporary file                        *)
(* /tmp/charoite-installed.yaml and the set of installed artifact files.   *)
(***************************************************************************)
EXTENDS Integers, Sequences, FiniteSets, TLC

VARIABLES
    inv,        \* inv[p]: the locals of invocation p (see Idle)
    ledger,     \* content of /etc/charoite/installed.yaml
    temp,       \* content of /tmp/charoite-installed.yaml
    artifacts   \* the artifact files that exist, as <<directory, file name>>

vars == <<inv, ledger, temp, artifacts>>

----------------------------------------------------------------------------
(* Bounds of the model *)

\* most marker files a generated source tree holds
MaxMarkers == 2
\* most *.patch files in a patches directory
MaxPatches == 2

Procs == {1, 2}

----------------------------------------------------------------------------
(* Sequence helpers *)

Range(s) == {s[i] : i \in 1..Len(s)}

NoDup(s) == \A i, j \in 1..Len(s) : i # j => s[i] # s[j]

RECURSIVE SetToSeqs(_)
\* all orderings of a finite set
SetToSeqs(S) ==
    IF S = {} THEN {<<>>}
    ELSE UNION {{<<x>> \o t : t \in SetToSeqs(S \ {x})} : x \in S}

\* all subsets of S with at most n elements
SubsetsUpTo(S, n) == {T \in SUBSET S : Cardinality(T) <= n}

----------------------------------------------------------------------------
(* BuildSystem and the marker files of detect_build_system *)

BuildSystem ==
    {"Make", "Autotools", "Cargo", "Cmake", "Meson", "Ninja", "Nimble",
     "Stack", "Pip", "Unknown"}

\* the existence tests of detect_build_system, in the order they are made
MarkerOrder ==
    << <<"radon.json", "Unknown">>,
       <<"charoite.json", "Unknown">>,
       <<"Cargo.toml", "Cargo">>,
       <<"Makefile", "Make">>,
       <<"configure", "Autotools">>,
       <<"CMakeLists.txt", "Cmake">>,
       <<"meson.build", "Meson">>,
       <<"build.ninja", "Ninja">>,
       <<"*.nimble", "Nimble">>,
       <<"stack.yaml", "Stack">>,
       <<"requirements.txt", "Pip">> >>

Markers == {MarkerOrder[i][1] : i \in 1..Len(MarkerOrder)}

IsManifest(file) == file = "radon.json" \/ file = "charoite.json"

\* build_files: the (file, backend) pairs of the markers present in the
\* tree, pushed in the order of the tests
ScanMarkers(tree) == SelectSeq(MarkerOrder, LAMBDA m : m[1] \in tree)

NoSelection == <<"", "Unknown">>

\* input.trim() of the line read from the operator
Trim(line) ==
    CASE line = "1\n" -> "1"
      [] line = "2\n" -> "2"
      [] line = "3\n" -> "3"
      [] line = "4\n" -> "4"
      [] line = " 2 \n" -> "2"
      [] line = "0\n" -> "0"
      [] line = "9\n" -> "9"
      [] line = "+1\n" -> "+1"
      [] line = "-1\n" -> "-1"
      [] line = "abc\n" -> "abc"
      [] line = "y\n" -> "y"
      [] line = "Y\n" -> "Y"
      [] line = " y \n" -> "y"
      [] line = "yes\n" -> "yes"
      [] line = "n\n" -> "n"
      [] line = "\n" -> ""
      [] OTHER -> line

\* str::parse::<usize>().unwrap_or(0): decimal digits with an optional '+'
ParseChoice(text) ==
    CASE text = "1" -> 1
      [] text = "+1" -> 1
      [] text = "2" -> 2
      [] text = "3" -> 3
      [] text = "4" -> 4
      [] text = "9" -> 9
      [] OTHER -> 0

ChoiceLines ==
    {"1\n", "2\n", "3\n", "4\n", " 2 \n", "0\n", "9\n", "+1\n", "-1\n",
     "abc\n", "\n"}

\* the prompt also for a single marker
NeedsPromptAny(build_files) == Len(build_files) >= 1

\* build_files.len() > 1: the operator is asked to choose
NeedsPrompt(build_files) == Len(build_files) > 1

\* a tree without marker falls back to Make
SelectBuildFileDefault(build_files, line) ==
    IF Len(build_files) = 0 THEN <<"Makefile", "Make">>
    ELSE IF NeedsPrompt(build_files)
         THEN LET choice == ParseChoice(Trim(line))
              IN  IF choice > 0 /\ choice <= Len(build_files)
                  THEN build_files[choice]
                  ELSE NoSelection
         ELSE build_files[1]

\* the choice taken as an index from 0
SelectBuildFileZeroBased(build_files, line) ==
    IF Len(build_files) = 0 THEN NoSelection
    ELSE IF NeedsPrompt(build_files)
         THEN LET choice == ParseChoice(Trim(line))
              IN  IF choice >= 0 /\ choice < Len(build_files)
                  THEN build_files[choice + 1]
                  ELSE NoSelection
         ELSE build_files[1]

\* the selection of detect_build_system: the pair chosen, or NoSelection
\* when the function returns Unknown at once
SelectBuildFile(build_files, line) ==
    IF Len(build_files) = 0 THEN NoSelection
    ELSE IF NeedsPrompt(build_files)
         THEN LET choice == ParseChoice(Trim(line))
              IN  IF choice > 0 /\ choice <= Len(build_files)
                  THEN build_files[choice]
                  ELSE NoSelection
         ELSE build_files[1]

----------------------------------------------------------------------------
(* File contents read by the extractors *)

\* a JSON array element: a string, or a value as_str() rejects
JsonStr(s) == [str |-> TRUE, s |-> s]
JsonNum == [str |-> FALSE, s |-> "0"]

\* filter_map(|v| v.as_str()) over a JSON array
RECURSIVE JsonStrings(_)
JsonStrings(arr) ==
    IF arr = <<>> THEN <<>>
    ELSE IF arr[1].str THEN <<arr[1].s>> \o JsonStrings(Tail(arr))
         ELSE JsonStrings(Tail(arr))

\* a build_system string that names no backend is taken as make
ManifestBackendDefaultMake(s) ==
    CASE s = "autotools" -> "Autotools"
      [] s = "cargo" -> "Cargo"
      [] s = "cmake" -> "Cmake"
      [] s = "meson" -> "Meson"
      [] s = "ninja" -> "Ninja"
      [] s = "nimble" -> "Nimble"
      [] s = "stack" -> "Stack"
      [] s = "pip" -> "Pip"
      [] OTHER -> "Make"

\* the build_system strings parse_charoite_json knows
ManifestBackend(s) ==
    CASE s = "make" -> "Make"
      [] s = "autotools" -> "Autotools"
      [] s = "cargo" -> "Cargo"
      [] s = "cmake" -> "Cmake"
      [] s = "meson" -> "Meson"
      [] s = "ninja" -> "Ninja"
      [] s = "nimble" -> "Nimble"
      [] s = "stack" -> "Stack"
      [] s = "pip" -> "Pip"
      [] OTHER -> "Unknown"

\* a file content is a record: kind says which file it is
\*   manifest: valid (parses as JSON), has_bs (build_system is a string),
\*             build_system, dependencies, flags (JSON arrays)
\*   makefile: line = the first line containing "# DEPENDENCIES:", as its
\*             ':'-separated pieces, each a list of ','-separated items;
\*             <<>> when no line contains it
\*   configure: words = the literals the text contains
\*   cargo: json (the text is JSON, not TOML), dependencies
\*   other: nothing is read
Content(kind) ==
    [kind |-> kind, valid |-> TRUE, has_bs |-> FALSE, build_system |-> "",
     dependencies |-> <<>>, flags |-> <<>>, line |-> <<>>, words |-> {},
     json |-> FALSE]

NoContent == Content("none")

\* parse_charoite_json; "panic" stands for the two expect() calls
parse_charoite_json(c) ==
    IF ~c.valid THEN [panic |-> TRUE, bs |-> "Unknown", deps |-> <<>>, flags |-> <<>>]
    ELSE [panic |-> FALSE,
          bs |-> ManifestBackend(IF c.has_bs THEN c.build_system ELSE "make"),
          deps |-> JsonStrings(c.dependencies),
          flags |-> JsonStrings(c.flags)]

\* s.trim() of one ','-separated item of a Makefile line
TrimItem(s) ==
    CASE s = " zlib" -> "zlib"
      [] s = " ncurses" -> "ncurses"
      [] s = " # DEPENDENCIES" -> "# DEPENDENCIES"
      [] s = " " -> ""
      [] OTHER -> s

\* parse_make_deps: split(':').nth(1) of the line, split(','), trimmed
parse_make_deps(c) ==
    IF c.line = <<>> THEN <<>>
    ELSE [i \in 1..Len(c.line[2]) |-> TrimItem(c.line[2][i])]

\* parse_autotools_deps
parse_autotools_deps(c) ==
    (IF "PKG_CHECK_MODULES" \in c.words THEN <<"pkg-config">> ELSE <<>>)
    \o (IF "AC_PROG_CC" \in c.words THEN <<"gcc">> ELSE <<>>)
    \o (IF "AC_PROG_CXX" \in c.words THEN <<"g++">> ELSE <<>>)

\* parse_cargo_deps: the text is parsed as JSON (serde_json::Value); a text
\* that is not JSON gives Null and so no dependencies
parse_cargo_deps(c) ==
    IF c.json THEN JsonStrings(c.dependencies) ELSE <<>>

\* the match on build_system in detect_build_system: (deps, flags)
ExtractDeps(bs, c) ==
    CASE bs = "Make" -> parse_make_deps(c)
      [] bs = "Autotools" -> parse_autotools_deps(c)
      [] bs = "Cargo" -> parse_cargo_deps(c)
      [] bs = "Cmake" -> <<"cmake">>
      [] bs = "Meson" -> <<"meson", "ninja">>
      [] bs = "Ninja" -> <<"ninja">>
      [] bs = "Nimble" -> <<"nim", "nimble">>
      [] bs = "Stack" -> <<"stack">>
      [] bs = "Pip" -> <<"pip">>
      [] OTHER -> <<>>

\* the content kind the extractor of a selected file reads
ContentKind(file) ==
    CASE IsManifest(file) -> "manifest"
      [] file = "Makefile" -> "makefile"
      [] file = "configure" -> "configure"
      [] file = "Cargo.toml" -> "cargo"
      [] OTHER -> "none"

\* the extractor of the backend a manifest names adds its dependencies
DetectResultWithExtractor(sel, c) ==
    IF sel = NoSelection
    THEN [panic |-> FALSE, bs |-> "Unknown", build_file |-> "", deps |-> <<>>, flags |-> <<>>]
    ELSE IF IsManifest(sel[1])
         THEN LET m == parse_charoite_json(c)
              IN  [panic |-> m.panic, bs |-> m.bs, build_file |-> sel[1],
                   deps |-> m.deps \o ExtractDeps(m.bs, c), flags |-> m.flags]
         ELSE [panic |-> FALSE, bs |-> sel[2], build_file |-> sel[1],
               deps |-> ExtractDeps(sel[2], c), flags |-> <<>>]

\* what detect_build_system returns for a selection and the content read
DetectResult(sel, c) ==
    IF sel = NoSelection
    THEN [panic |-> FALSE, bs |-> "Unknown", build_file |-> "", deps |-> <<>>, flags |-> <<>>]
    ELSE IF IsManifest(sel[1])
         THEN LET m == parse_charoite_json(c)
              IN  [panic |-> m.panic, bs |-> m.bs, build_file |-> sel[1],
                   deps |-> m.deps, flags |-> m.flags]
         ELSE [panic |-> FALSE, bs |-> sel[2], build_file |-> sel[1],
               deps |-> ExtractDeps(sel[2], c), flags |-> <<>>]

----------------------------------------------------------------------------
(* The file system *)

\* a file: absent, unparsable text ("corrupt"), a write cut short after the
\* truncation ("partial"), or the YAML text of a list of records
File(kind, recs) == [kind |-> kind, recs |-> recs]

Absent == File("absent", <<>>)
Corrupt == File("corrupt", <<>>)
Partial == File("partial", <<>>)

\* serde_yaml::to_string(&installed)
to_yaml(installed) == File("yaml", installed)

\* serde_yaml::from_str::<Vec<InstalledPackage>>(&content)
from_yaml(f) ==
    IF f.kind = "yaml" THEN [ok |-> TRUE, recs |-> f.recs]
    ELSE [ok |-> FALSE, recs |-> <<>>]

\* PathBuf::join and Path::parent on the paths of the model
Join(dir, file) == <<dir, file>>
Parent(path) == path[1]

SystemBin == "/usr/local/bin"
LocalBin == "~/.local/bin"

\* get_install_path
get_install_path(local) ==
    IF local THEN [bin_path |-> LocalBin, elevate |-> FALSE]
    ELSE [bin_path |-> SystemBin, elevate |-> TRUE]

\* the InstalledPackage record update_installed_packages builds; the fields
\* source, hash, version, last_commit_hash and the two dates are carried
\* through unchanged by the code and are left out
InstalledPackage(repo_name, build_system, location, build_file) ==
    [name |-> repo_name, build_system |-> build_system,
     location |-> location, build_file |-> build_file]

\* installed.retain(|p| p.name != name)
Retain(installed, name) == SelectSeq(installed, LAMBDA r : r.name # name)

\* push without the retain before it
UpsertNoRetain(installed, pkg) == Append(installed, pkg)

\* insert only: a name the list holds keeps its old record
UpsertKeepOld(installed, pkg) ==
    IF \E i \in 1..Len(installed) : installed[i].name = pkg.name
    THEN installed
    ELSE Append(installed, pkg)

\* the new record goes to the front of the list
UpsertPrepend(installed, pkg) == <<pkg>> \o Retain(installed, pkg.name)

\* installed.retain(..); installed.push(pkg)
Upsert(installed, pkg) == Append(Retain(installed, pkg.name), pkg)

\* find that takes the first record whatever its name
FindFirst(installed, name) == IF installed # <<>> THEN 1 ELSE 0

\* installed.iter().find(|p| p.name == name): the index, 0 when none
Find(installed, name) ==
    IF \E i \in 1..Len(installed) : installed[i].name = name
    THEN CHOOSE i \in 1..Len(installed) :
            /\ installed[i].name = name
            /\ \A j \in 1..(i - 1) : installed[j].name # name
    ELSE 0

\* the list without the two sbin directories
system_dirs_short == {"/usr/bin", "/usr/local/bin", "/bin"}

\* the directories remove_package deletes from with elevation
system_dirs == {"/usr/bin", "/usr/local/bin", "/bin", "/sbin", "/usr/sbin"}

----------------------------------------------------------------------------
(* The locals of an invocation *)

Idle ==
    [op |-> "idle", pc |-> "idle", repo |-> "", name |-> "", local |-> FALSE,
     yes |-> FALSE,
     flags |-> <<>>, patch_dir |-> FALSE, patches |-> 0,
     tree |-> {}, nfiles |-> -1, build_files |-> <<>>, prompted |-> FALSE, line |-> "",
     selected |-> NoSelection, content |-> NoContent,
     build_system |-> "Unknown", build_file |-> "", deps |-> <<>>,
     custom_flags |-> <<>>, final_flags |-> <<>>,
     warned |-> FALSE, asked |-> FALSE, answer |-> "", checked |-> 0, missing |-> 0,
     cmds |-> <<>>, ran |-> <<>>, release |-> {}, bins |-> {}, use_sudo |-> FALSE,
     seen |-> Absent, installed |-> <<>>, location |-> <<"", "">>,
     trace |-> <<>>, result |-> "none", msg |-> "",
     ledger0 |-> Absent, artifacts0 |-> {}]

Log(trace, step, ok) == Append(trace, [step |-> step, ok |-> ok])

SetLastOk(trace, ok) == [trace EXCEPT ![Len(trace)].ok = ok]

\* the invocation ends: a return (Ok or an Err kind), a panic, exit(1)
Return(r, result, msg) == [r EXCEPT !.pc = "done", !.result = result, !.msg = msg]

Outcomes == {"ok", "fail", "nostart"}

----------------------------------------------------------------------------
(* Inputs: what an invocation is given and what it finds *)

ManifestContent(valid, has_bs, bs, deps, flags) ==
    [Content("manifest") EXCEPT !.valid = valid, !.has_bs = has_bs,
        !.build_system = bs, !.dependencies = deps, !.flags = flags]

MakefileContent(line) == [Content("makefile") EXCEPT !.line = line]

ConfigureContent(words) == [Content("configure") EXCEPT !.words = words]

CargoContent(json, deps) ==
    [Content("cargo") EXCEPT !.json = json, !.dependencies = deps]

ManifestStrings ==
    {"make", "autotools", "cargo", "cmake", "meson", "ninja", "nimble",
     "stack", "pip", "Cargo", "scons"}

JsonArrays ==
    {<<>>, <<JsonStr("zlib"), JsonStr("ncurses")>>, <<JsonNum, JsonStr("zlib")>>}

AllManifests ==
    {ManifestContent(FALSE, FALSE, "", <<>>, <<>>)}
    \cup {ManifestContent(TRUE, FALSE, "", d, <<>>) : d \in JsonArrays}
    \cup {ManifestContent(TRUE, TRUE, b, d, f) :
            b \in ManifestStrings, d \in JsonArrays,
            f \in {<<>>, <<JsonStr("--offline")>>}}

\* Makefiles: no dependency line; "# DEPENDENCIES: zlib, ncurses";
\* "# DEPENDENCIES:"; "all: # DEPENDENCIES: zlib"
AllMakefiles ==
    {MakefileContent(<<>>),
     MakefileContent(<< <<"# DEPENDENCIES">>, <<" zlib", " ncurses">> >>),
     MakefileContent(<< <<"# DEPENDENCIES">>, <<"">> >>),
     MakefileContent(<< <<"all">>, <<" # DEPENDENCIES">>, <<" zlib">> >>)}

AllConfigures ==
    {ConfigureContent(w) : w \in SUBSET {"PKG_CHECK_MODULES", "AC_PROG_CC", "AC_PROG_CXX"}}

AllCargos ==
    {CargoContent(j, d) : j \in BOOLEAN, d \in {<<>>, <<JsonStr("openssl")>>}}

\* the universe the detector is explored over: every tree of at most
\* MaxMarkers markers, every content
DetectInputs ==
    [names |-> {"a"}, rnames |-> {}, locals |-> {FALSE}, yeses |-> {TRUE},
     flags |-> {<<>>}, patches |-> {-1},
     trees |-> SubsetsUpTo(Markers, MaxMarkers),
     lines |-> ChoiceLines,
     answers |-> {"y\n"},
     contents |-> [manifest |-> AllManifests, makefile |-> AllMakefiles,
                   configure |-> AllConfigures, cargo |-> AllCargos,
                   none |-> {NoContent}],
     bins |-> {{"a"}}]

----------------------------------------------------------------------------
(* install: from the command line to the detection result *)

Set(p, r) == inv' = [inv EXCEPT ![p] = r]

\* install.rs 67: repo.split('/').last().unwrap()
repo_name(repo) ==
    CASE repo = "owner/a" -> "a"
      [] repo = "owner/b" -> "b"
      [] repo = "group/sub/a" -> "a"
      [] OTHER -> repo

\* main dispatches install or remove with the arguments of the command line
Invoke(p, U) ==
    /\ inv[p].pc = "idle"
    /\ \/ \E n \in U.names, l \in U.locals, y \in U.yeses, f \in U.flags,
            k \in U.patches :
            Set(p, [Idle EXCEPT !.op = "install", !.pc = "clean", !.repo = n,
                        !.name = repo_name(n),
                        !.local = l, !.yes = y, !.flags = f,
                        !.patch_dir = (k >= 0), !.patches = IF k >= 0 THEN k ELSE 0,
                        !.ledger0 = ledger, !.artifacts0 = artifacts])
       \/ \E n \in U.rnames :
            Set(p, [Idle EXCEPT !.op = "remove", !.pc = "rm_read", !.name = n,
                        !.ledger0 = ledger, !.artifacts0 = artifacts])
    /\ UNCHANGED <<ledger, temp, artifacts>>

\* install.rs 70-87: a previous build directory is removed; when that fails
\* (also with elevation) install returns
Clean(p) ==
    /\ inv[p].pc = "clean"
    /\ \E o \in {"ok", "fail"} :
         Set(p, IF o = "ok" THEN [inv[p] EXCEPT !.pc = "clone"]
                ELSE Return(inv[p], "Ok", "Failed to clean previous build"))
    /\ UNCHANGED <<ledger, temp, artifacts>>

\* install.rs 89-109: git clone
Clone(p) ==
    /\ inv[p].pc = "clone"
    /\ \E o \in Outcomes :
         LET r == [inv[p] EXCEPT !.trace = Log(@, "clone", o = "ok")]
         IN  Set(p, CASE o = "ok" ->
                           [r EXCEPT !.pc = IF r.patch_dir THEN "patch" ELSE "detect"]
                      [] o = "fail" -> Return(r, "Ok", "Failed to clone repository")
                      [] OTHER -> Return(r, "panic", "Git command failed"))
    /\ UNCHANGED <<ledger, temp, artifacts>>

\* a patch that does not apply ends the invocation with an error
PatchFailedHalts(r) ==
    Return([r EXCEPT !.patches = @ - 1, !.trace = SetLastOk(@, FALSE)],
           "Err_Other", "Failed to apply patch")

\* install.rs 463-465: a patch that exits non-zero is reported and the loop
\* goes on with the next patch
PatchFailed(r) ==
    [r EXCEPT !.patches = @ - 1, !.trace = SetLastOk(@, FALSE)]

\* apply_patches: one patch per step; a patch that does not apply is
\* reported and the loop goes on
apply_patches(p) ==
    /\ inv[p].pc = "patch"
    /\ LET r == IF \E i \in 1..Len(inv[p].trace) : inv[p].trace[i].step = "patch"
                THEN inv[p]
                ELSE [inv[p] EXCEPT !.trace = Log(@, "patch", TRUE)]
       IN  IF r.patches = 0
           THEN Set(p, [r EXCEPT !.pc = "detect"])
           ELSE \E o \in Outcomes :
                  Set(p, CASE o = "ok" -> [r EXCEPT !.patches = @ - 1]
                           [] o = "fail" -> PatchFailed(r)
                           [] OTHER ->
                                Return([r EXCEPT !.trace = SetLastOk(@, FALSE)],
                                       "panic", "Failed to apply patch"))
    /\ UNCHANGED <<ledger, temp, artifacts>>

\* detect_build_system 243-279: the existence tests
DetectScan(p, U) ==
    /\ inv[p].pc = "detect"
    /\ \E tree \in U.trees :
         Set(p, [inv[p] EXCEPT !.pc = "select", !.tree = tree,
                    !.build_files = ScanMarkers(tree),
                    !.nfiles = Len(ScanMarkers(tree))])
    /\ UNCHANGED <<ledger, temp, artifacts>>

\* detect_build_system 280-300: the selection, with the prompt when more
\* than one marker was found
DetectSelect(p, U) ==
    /\ inv[p].pc = "select"
    /\ \E line \in U.lines :
         LET asks == NeedsPrompt(inv[p].build_files)
             sel == SelectBuildFile(inv[p].build_files, line)
             r == [inv[p] EXCEPT !.prompted = asks,
                                 !.line = IF asks THEN line ELSE "",
                                 !.selected = sel]
         IN  /\ asks \/ line = CHOOSE l \in U.lines : TRUE
             /\ Set(p, IF sel = NoSelection
                       THEN [r EXCEPT !.pc = "detected",
                                      !.trace = Log(@, "detect", FALSE)]
                       ELSE [r EXCEPT !.pc = "extract"])
    /\ UNCHANGED <<ledger, temp, artifacts>>

\* detect_build_system 301-317: the extractor of the selected backend, or
\* the custom manifest
DetectExtract(p, U) ==
    /\ inv[p].pc = "extract"
    /\ \E c \in U.contents[ContentKind(inv[p].selected[1])] :
         LET d == DetectResult(inv[p].selected, c)
             r == [inv[p] EXCEPT !.content = c]
         IN  Set(p, IF d.panic
                    THEN Return([r EXCEPT !.trace = Log(@, "detect", FALSE)],
                                "panic", "Invalid charoite.json")
                    ELSE [r EXCEPT !.pc = "detected",
                                   !.build_system = d.bs,
                                   !.build_file = d.build_file,
                                   !.deps = d.deps,
                                   !.custom_flags = d.flags,
                                   !.trace = Log(@, "detect", d.bs # "Unknown")])
    /\ UNCHANGED <<ledger, temp, artifacts>>

\* install.rs 116-121: detect_build_system has returned; Unknown ends the
\* install
CheckUnknown(p) ==
    /\ inv[p].pc = "detected"
    /\ LET r == inv[p]
       IN  Set(p, IF r.build_system = "Unknown"
                  THEN Return(r, "Ok", "Unsupported build system")
                  ELSE [r EXCEPT !.pc = "pkg_config"])
    /\ UNCHANGED <<ledger, temp, artifacts>>

\* check_pkg_config_usage; found: the build file holds the pattern the
\* backend is scanned for
check_pkg_config_usage(build_system, found) ==
    CASE build_system = "Autotools" -> TRUE
      [] build_system \in {"Make", "Cmake", "Meson"} -> found
      [] OTHER -> FALSE

\* an empty answer counts as y
IsYesOrEmpty(line) == Trim(line) \in {"y", "Y", ""}

\* input.trim().eq_ignore_ascii_case("y")
IsYes(line) == Trim(line) = "y" \/ Trim(line) = "Y"

\* install.rs 136-149: the pkg-config warning and its confirmation
PkgConfig(p, U) ==
    /\ inv[p].pc = "pkg_config"
    /\ \E found \in BOOLEAN, line \in U.answers :
         LET uses == check_pkg_config_usage(inv[p].build_system, found)
             asks == ~uses /\ ~inv[p].yes
             r == [inv[p] EXCEPT !.warned = ~uses, !.asked = asks,
                                 !.line = IF asks THEN line ELSE "",
                                 !.answer = IF asks THEN line ELSE ""]
         IN  /\ asks \/ line = CHOOSE l \in U.answers : TRUE
             /\ Set(p, IF asks /\ ~IsYes(line)
                       THEN Return([r EXCEPT !.trace = Log(@, "pkg_config", FALSE)],
                                   "Ok", "Build cancelled by user")
                       ELSE [r EXCEPT !.pc = "check_deps", !.line = "",
                                      !.trace = Log(@, "pkg_config", TRUE)])
    /\ UNCHANGED <<ledger, temp, artifacts>>

Started(trace, step) == trace # <<>> /\ trace[Len(trace)].step = step

Begin(trace, step) == IF Started(trace, step) THEN trace ELSE Log(trace, step, FALSE)

\* the command sequence of build_project
BuildCommands(build_system) ==
    CASE build_system = "Make" -> <<"make">>
      [] build_system = "Autotools" -> <<"./configure", "make">>
      [] build_system = "Cargo" -> <<"cargo build">>
      [] build_system = "Cmake" -> <<"mkdir build", "cmake ..", "cmake --build">>
      [] build_system = "Meson" -> <<"mkdir build", "meson setup", "ninja -C build">>
      [] build_system = "Ninja" -> <<"ninja">>
      [] build_system = "Nimble" -> <<"nimble build">>
      [] build_system = "Stack" -> <<"stack install">>
      [] build_system = "Pip" -> <<>>
      [] OTHER -> <<"unsupported">>

\* run_command without the test of status.success()
run_command_lenient(o) == IF o # "nostart" THEN "Ok" ELSE "Err"

\* run_command that returns Ok whatever the command did
run_command_always(o) == "Ok"

\* run_command: Ok when the command started and exited with status 0
run_command(o) == IF o = "ok" THEN "Ok" ELSE "Err"

\* the operator's flags before the extracted ones
MergeFlagsOperatorFirst(custom_flags, flags) == flags \o custom_flags

\* install.rs 153-154: final_flags = custom_flags, extended by flags
MergeFlags(custom_flags, flags) == custom_flags \o flags

\* a missing dependency is reported and the loop goes on
DependencyNotFoundWarn(r) == [r EXCEPT !.checked = @ + 1]

\* check_deps 22-25: the message and std::process::exit(1)
DependencyNotFound(r) == Return(r, "exit1", "Dependency not found")

\* utils::check_deps, one dependency per step: a missing one is exit(1);
\* then install.rs 153-154 merges the flags
check_deps(p) ==
    /\ inv[p].pc = "check_deps"
    /\ LET r == [inv[p] EXCEPT !.trace = Begin(@, "check_deps")]
       IN  IF r.checked = Len(r.deps)
           THEN Set(p, [r EXCEPT !.pc = "build",
                                 !.trace = SetLastOk(@, TRUE),
                                 !.final_flags = MergeFlags(r.custom_flags, r.flags),
                                 !.cmds = BuildCommands(r.build_system)])
           ELSE \E found \in BOOLEAN :
                  Set(p, IF found THEN [r EXCEPT !.checked = @ + 1]
                         ELSE DependencyNotFound([r EXCEPT !.missing = @ + 1]))
    /\ UNCHANGED <<ledger, temp, artifacts>>

\* build_project, one command per step; a command that fails or does not
\* start ends the sequence with an error
build_project(p) ==
    /\ inv[p].pc = "build"
    /\ LET r == [inv[p] EXCEPT !.trace = Begin(@, "build")]
       IN  IF r.cmds = <<>>
           THEN Set(p, [r EXCEPT !.pc = "pip",
                                 !.trace = SetLastOk(@, \A i \in 1..Len(r.ran) : r.ran[i].ok)])
           ELSE IF Head(r.cmds) = "unsupported"
                THEN Set(p, Return(r, "Err_Unsupported", "Unsupported build system"))
                ELSE \E o \in Outcomes :
                       LET t == [r EXCEPT !.ran = Append(@, [cmd |-> Head(r.cmds),
                                                            ok |-> o = "ok"])]
                       IN  Set(p, IF run_command(o) = "Ok"
                                  THEN [t EXCEPT !.cmds = Tail(@)]
                                  ELSE Return(t, "Err_Other", "Command failed"))
    /\ UNCHANGED <<ledger, temp, artifacts>>

\* a failed requirements installation is logged and install goes on
PipRequirementsWarn(p) ==
    /\ inv[p].pc = "pip"
    /\ \E exists \in BOOLEAN, o \in Outcomes :
         LET runs == inv[p].build_system = "Pip" /\ exists
         IN  /\ inv[p].build_file = "requirements.txt" => exists
             /\ runs \/ o = "ok"
             /\ Set(p, IF ~runs THEN [inv[p] EXCEPT !.pc = "install"]
                       ELSE [inv[p] EXCEPT !.pc = "install",
                                !.trace = Log(@, "pip_requirements", o = "ok")])
    /\ UNCHANGED <<ledger, temp, artifacts>>

\* install.rs 159-187: pip install -r requirements.txt, for Pip when the
\* file exists (it does when it is the marker that was selected)
PipRequirements(p) ==
    /\ inv[p].pc = "pip"
    /\ \E exists \in BOOLEAN, o \in Outcomes :
         LET runs == inv[p].build_system = "Pip" /\ exists
         IN  /\ inv[p].build_file = "requirements.txt" => exists
             /\ runs \/ o = "ok"
             /\ Set(p, IF ~runs THEN [inv[p] EXCEPT !.pc = "install"]
                       ELSE IF o = "ok"
                            THEN [inv[p] EXCEPT !.pc = "install",
                                     !.trace = Log(@, "pip_requirements", TRUE)]
                            ELSE Return([inv[p] EXCEPT
                                            !.trace = Log(@, "pip_requirements", FALSE)],
                                        "Err_Other",
                                        IF o = "fail"
                                        THEN "Failed to install Python dependencies"
                                        ELSE "Failed to run pip"))
    /\ UNCHANGED <<ledger, temp, artifacts>>

\* the files an install command leaves in the bin directory: what the
\* project's own install target does is not the program's to decide
Placed(bin_path, name) == {{}, {Join(bin_path, name)}}

\* install.rs 215-226: the record handed to update_installed_packages
NewPackage(r) ==
    InstalledPackage(r.name, r.build_system,
                     Join(get_install_path(r.local).bin_path, r.name), r.build_file)

\* the upsert without the test of the local flag
AfterInstallAlways(r) == [r EXCEPT !.pc = "upsert"]

\* install.rs 193, 229-239: after install_project succeeded
AfterInstall(r) ==
    IF r.local THEN Return(r, "Ok", "INSTALL FINISHED")
    ELSE [r EXCEPT !.pc = "upsert"]

\* a copy whose outcome is not looked at
CopyFileUnchecked(loc, o) == "Ok"

\* a copy into the bin directory: cp through run_command with elevation,
\* fs::copy without
CopyFile(loc, o) ==
    IF loc.elevate THEN run_command(o) ELSE IF o = "ok" THEN "Ok" ELSE "Err"

\* install_project (and install_all_cargo_binaries up to its copy loop)
\*   o: how the command or copy ends; found: the release directory can be
\*   read (Cargo), the binary is found (Stack), pip is there (Pip);
\*   B: the regular files of target/release; F: the files the command leaves
install_project(p, U) ==
    /\ inv[p].pc = "install"
    /\ LET r == [inv[p] EXCEPT !.trace = Begin(@, "install")]
           loc == get_install_path(r.local)
           done == [r EXCEPT !.trace = SetLastOk(@, TRUE)]
       IN  \E o \in Outcomes, found \in BOOLEAN, B \in U.bins,
              F \in Placed(loc.bin_path, r.name) :
             CASE r.build_system = "Cargo" ->
                    /\ o = "ok" /\ F = {}
                    /\ found \/ B = CHOOSE b \in U.bins : TRUE
                    /\ UNCHANGED artifacts
                    /\ Set(p, IF ~found
                              THEN Return(r, "Err_Other", "read_dir failed")
                              ELSE IF B = {}
                                   THEN Return(r, "Err_NotFound",
                                               "No binaries found in target/release")
                                   ELSE [done EXCEPT !.pc = "cargo_copy", !.release = B,
                                                     !.bins = B])
               [] r.build_system = "Stack" ->
                    /\ F = {} /\ B = CHOOSE b \in U.bins : TRUE
                    /\ found \/ o = "ok"
                    /\ artifacts' = IF found /\ o = "ok"
                                    THEN artifacts \cup {Join(loc.bin_path, r.name)}
                                    ELSE artifacts
                    /\ Set(p, IF ~found THEN Return(r, "Err_NotFound", "Binary not found")
                              ELSE IF CopyFile(loc, o) = "Ok"
                                   THEN AfterInstall(IF o = "ok" THEN done ELSE r)
                                   ELSE Return(r, "Err_Other", "Command failed"))
               [] r.build_system = "Pip" ->
                    /\ B = CHOOSE b \in U.bins : TRUE
                    /\ found \/ (o = "ok" /\ F = {})
                    /\ o = "nostart" => F = {}
                    /\ artifacts' = IF found THEN artifacts \cup F ELSE artifacts
                    /\ Set(p, IF ~found THEN Return(r, "Err_NotFound", "pip not found")
                              ELSE IF o = "ok" THEN AfterInstall(done)
                                   ELSE Return(r, "Err_Other",
                                               IF o = "fail" THEN "pip install failed"
                                               ELSE "Failed to run pip"))
               [] r.build_system = "Unknown" ->
                    /\ o = "ok" /\ F = {} /\ found /\ B = CHOOSE b \in U.bins : TRUE
                    /\ UNCHANGED artifacts
                    /\ Set(p, Return(r, "Err_Unsupported", "Unsupported build system"))
               [] OTHER ->
                    /\ found /\ B = CHOOSE b \in U.bins : TRUE
                    /\ o = "nostart" => F = {}
                    /\ artifacts' = artifacts \cup F
                    /\ Set(p, IF run_command(o) = "Ok"
                              THEN AfterInstall(IF o = "ok" THEN done ELSE r)
                              ELSE Return(r, "Err_Other", "Command failed"))
    /\ UNCHANGED <<ledger, temp>>

\* only one file of the release directory is copied
install_one_cargo_binary(p) ==
    /\ inv[p].pc = "cargo_copy"
    /\ \E f \in inv[p].bins, o \in Outcomes :
         LET loc == get_install_path(inv[p].local)
             r == [inv[p] EXCEPT !.bins = {},
                                 !.trace = IF o = "ok" THEN @ ELSE SetLastOk(@, FALSE)]
         IN  /\ artifacts' = IF o = "ok" THEN artifacts \cup {Join(loc.bin_path, f)}
                             ELSE artifacts
             /\ Set(p, IF CopyFile(loc, o) # "Ok"
                       THEN Return(r, "Err_Other", "Command failed")
                       ELSE AfterInstall(r))
    /\ UNCHANGED <<ledger, temp>>

\* install_all_cargo_binaries 543-552: one copy per step, in directory order
install_all_cargo_binaries(p) ==
    /\ inv[p].pc = "cargo_copy"
    /\ \E f \in inv[p].bins, o \in Outcomes :
         LET loc == get_install_path(inv[p].local)
             r == [inv[p] EXCEPT !.bins = @ \ {f},
                                 !.trace = IF o = "ok" THEN @ ELSE SetLastOk(@, FALSE)]
         IN  /\ artifacts' = IF o = "ok" THEN artifacts \cup {Join(loc.bin_path, f)}
                             ELSE artifacts
             /\ Set(p, IF CopyFile(loc, o) # "Ok"
                       THEN Return(r, "Err_Other", "Command failed")
                       ELSE IF r.bins = {} THEN AfterInstall(r)
                            ELSE r)
    /\ UNCHANGED <<ledger, temp>>

----------------------------------------------------------------------------
(* The ledger: update_installed_packages and remove_package *)

\* the list update_installed_packages starts from: the parsed ledger, or
\* the empty list when the file is absent or does not parse
ReadOrDefault(f) == IF f.kind = "absent" THEN <<>> ELSE from_yaml(f).recs

\* update_installed_packages 629-655: the directory, the read, retain, push
UpsertRead(p) ==
    /\ inv[p].pc = "upsert"
    /\ \E o \in {"ok", "nostart"} :
         LET r == [inv[p] EXCEPT !.trace = Log(@, "upsert", FALSE), !.seen = ledger]
         IN  /\ o = "nostart" => ledger.kind = "absent"
             /\ Set(p, IF o = "nostart"
                       THEN Return(r, "panic", "Failed to create /etc/charoite")
                       ELSE [r EXCEPT !.pc = "upsert_write",
                                !.installed = Upsert(ReadOrDefault(ledger), NewPackage(r))])
    /\ UNCHANGED <<ledger, temp, artifacts>>

\* fs::write(&temp_path, ..) opens the file truncating it ...
UpsertWrite(p) ==
    /\ inv[p].pc = "upsert_write"
    /\ \E o \in {"ok", "fail"} :
         /\ temp' = IF o = "ok" THEN Partial ELSE temp
         /\ Set(p, IF o = "ok" THEN [inv[p] EXCEPT !.pc = "upsert_flush"]
                   ELSE Return(inv[p], "panic", "write failed"))
    /\ UNCHANGED <<ledger, artifacts>>

\* ... and writes the whole text
UpsertFlush(p) ==
    /\ inv[p].pc = "upsert_flush"
    /\ \E o \in {"ok", "fail"} :
         /\ temp' = IF o = "ok" THEN to_yaml(inv[p].installed) ELSE Partial
         /\ Set(p, IF o = "ok" THEN [inv[p] EXCEPT !.pc = "upsert_mv"]
                   ELSE Return(inv[p], "panic", "write failed"))
    /\ UNCHANGED <<ledger, artifacts>>

\* what mv /tmp/charoite-installed.yaml /etc/charoite/installed.yaml can do:
\* the outcomes of a command, "ok" being a rename (both paths on one file
\* system), and "copy" the start of the copy mv makes when /tmp and
\* /etc/charoite are on two file systems
MoveOutcomes == Outcomes \cup {"copy"}

\* a move that adds the records of the temporary file to those of the ledger
MoveLedgerMerge(l, t, o) ==
    CASE o = "ok" ->
           <<File("yaml", l.recs \o SelectSeq(t.recs, LAMBDA r :
                                     \A i \in 1..Len(l.recs) : l.recs[i].name # r.name)),
             Absent>>
      [] o = "copy" -> <<Partial, t>>
      [] OTHER -> <<l, t>>

\* the privileged mv of the temporary file onto the ledger: what the ledger
\* and the temporary file hold afterwards; a copy has replaced the ledger
\* by a file it is still writing
MoveLedger(l, t, o) ==
    CASE o = "ok" -> <<t, Absent>>
      [] o = "copy" -> <<Partial, t>>
      [] OTHER -> <<l, t>>

\* the copy of mv ends: the ledger holds the text, the source is unlinked
CopyDone(t) == <<t, Absent>>

\* update_installed_packages 659-664: the exit status of mv is not looked
\* at; then install.rs 229-239
UpsertMove(p) ==
    /\ inv[p].pc \in {"upsert_mv", "upsert_cp"}
    /\ IF inv[p].pc = "upsert_cp"
       THEN /\ ledger' = CopyDone(temp)[1]
            /\ temp' = CopyDone(temp)[2]
            /\ Set(p, Return([inv[p] EXCEPT !.trace = SetLastOk(@, TRUE)],
                              "Ok", "INSTALL FINISHED"))
       ELSE \E o \in MoveOutcomes :
              /\ o \in {"ok", "copy"} => temp.kind # "absent"
              /\ ledger' = MoveLedger(ledger, temp, o)[1]
              /\ temp' = MoveLedger(ledger, temp, o)[2]
              /\ Set(p, CASE o = "nostart" ->
                              Return(inv[p], "panic", "Failed to update package list")
                         [] o = "copy" -> [inv[p] EXCEPT !.pc = "upsert_cp"]
                         [] OTHER ->
                              Return([inv[p] EXCEPT !.trace = SetLastOk(@, o = "ok")],
                                     "Ok", "INSTALL FINISHED"))
    /\ UNCHANGED artifacts

\* the existence test left out: every recorded path counts as present
PathExistsAlways(location, files) == TRUE

\* remove_package 21-24: Path::new(&pkg.location).exists()
PathExists(location, files) == location \in files

\* remove_package 10-34: the ledger is read and the record looked up
RemoveRead(p) ==
    /\ inv[p].pc = "rm_read"
    /\ LET parsed == from_yaml(ledger)
           i == Find(parsed.recs, inv[p].name)
           r == [inv[p] EXCEPT !.seen = ledger]
       IN  Set(p, IF ledger.kind = "absent"
                  THEN Return(r, "Err_NotFound", "No packages installed")
                  ELSE IF ~parsed.ok
                       THEN Return(r, "Err_InvalidData", "invalid ledger")
                       ELSE IF i = 0
                            THEN Return([r EXCEPT !.installed = parsed.recs],
                                        "Err_NotFound", "Package not found")
                            ELSE IF ~PathExists(parsed.recs[i].location, artifacts)
                                 THEN Return([r EXCEPT !.installed = parsed.recs,
                                                 !.location = parsed.recs[i].location],
                                             "Err_NotFound", "File not found")
                                 ELSE [r EXCEPT !.pc = "rm_delete",
                                          !.installed = parsed.recs,
                                          !.location = parsed.recs[i].location,
                                          !.use_sudo =
                                             Parent(parsed.recs[i].location) \in system_dirs])
    /\ UNCHANGED <<ledger, temp, artifacts>>

\* the rm command started, whatever its exit status
RemoveProceedsAny(o) == o # "nostart"

\* remove_package 49-50: the rm command started and exited with status 0
RemoveProceeds(o) == o = "ok"

\* remove_package 36-47: the deletion command
RemoveCommand(use_sudo) == IF use_sudo THEN "privileged rm -f" ELSE "rm -f"

\* remove_package 36-49, 63-68: rm -f, with the privilege command or not
RemoveDelete(p) ==
    /\ inv[p].pc = "rm_delete"
    /\ \E o \in Outcomes :
         LET r == [inv[p] EXCEPT !.ran = Append(@, [cmd |-> RemoveCommand(inv[p].use_sudo),
                                                    ok |-> o = "ok"])]
         IN  /\ artifacts' = IF o = "ok" THEN artifacts \ {r.location} ELSE artifacts
             /\ Set(p, IF RemoveProceeds(o) THEN [r EXCEPT !.pc = "rm_write"]
                       ELSE Return(r, "Err_Other", "Failed to remove file"))
    /\ UNCHANGED <<ledger, temp>>

\* remove_package 51-55: retain, serialize, and fs::write truncates ...
RemoveWrite(p) ==
    /\ inv[p].pc = "rm_write"
    /\ \E o \in {"ok", "fail"} :
         /\ temp' = IF o = "ok" THEN Partial ELSE temp
         /\ Set(p, IF o = "ok"
                   THEN [inv[p] EXCEPT !.pc = "rm_flush",
                            !.installed = Retain(@, inv[p].name)]
                   ELSE Return(inv[p], "Err_Other", "write failed"))
    /\ UNCHANGED <<ledger, artifacts>>

\* ... and writes the whole text
RemoveFlush(p) ==
    /\ inv[p].pc = "rm_flush"
    /\ \E o \in {"ok", "fail"} :
         /\ temp' = IF o = "ok" THEN to_yaml(inv[p].installed) ELSE Partial
         /\ Set(p, IF o = "ok" THEN [inv[p] EXCEPT !.pc = "rm_mv"]
                   ELSE Return(inv[p], "Err_Other", "write failed"))
    /\ UNCHANGED <<ledger, artifacts>>

\* remove_package 56-62: mv; only a command that does not start is an error
RemoveMove(p) ==
    /\ inv[p].pc \in {"rm_mv", "rm_cp"}
    /\ IF inv[p].pc = "rm_cp"
       THEN /\ ledger' = CopyDone(temp)[1]
            /\ temp' = CopyDone(temp)[2]
            /\ Set(p, Return(inv[p], "Ok", "Removed"))
       ELSE \E o \in MoveOutcomes :
              /\ o \in {"ok", "copy"} => temp.kind # "absent"
              /\ ledger' = MoveLedger(ledger, temp, o)[1]
              /\ temp' = MoveLedger(ledger, temp, o)[2]
              /\ Set(p, CASE o = "nostart" ->
                              Return(inv[p], "Err_Other", "mv did not start")
                         [] o = "copy" -> [inv[p] EXCEPT !.pc = "rm_cp"]
                         [] OTHER -> Return(inv[p], "Ok", "Removed"))
    /\ UNCHANGED artifacts

\* the invocation is interrupted (killed) between two steps
Crash(p) ==
    /\ inv[p].pc \notin {"idle", "done"}
    /\ Set(p, Return(inv[p], "killed", ""))
    /\ UNCHANGED <<ledger, temp, artifacts>>

\* the process is gone; the next invocation starts from nothing
Exit(p) ==
    /\ inv[p].pc = "done"
    /\ Set(p, Idle)
    /\ UNCHANGED <<ledger, temp, artifacts>>

\* the steps of an invocation over the inputs U
Step(p, U) ==
    \/ Clean(p)
    \/ Clone(p)
    \/ apply_patches(p)
    \/ DetectScan(p, U)
    \/ DetectSelect(p, U)
    \/ DetectExtract(p, U)
    \/ CheckUnknown(p)
    \/ PkgConfig(p, U)
    \/ check_deps(p)
    \/ build_project(p)
    \/ PipRequirements(p)
    \/ install_project(p, U)
    \/ install_all_cargo_binaries(p)
    \/ UpsertRead(p)
    \/ UpsertWrite(p)
    \/ UpsertFlush(p)
    \/ UpsertMove(p)
    \/ RemoveRead(p)
    \/ RemoveDelete(p)
    \/ RemoveWrite(p)
    \/ RemoveFlush(p)
    \/ RemoveMove(p)
    \/ Crash(p)

----------------------------------------------------------------------------
(* Specifications *)

\* the record a system-wide install of a Make project left for a name
MakeRecord(n) == InstalledPackage(n, "Make", Join(SystemBin, n), "Makefile")

\* the ledgers an invocation may find: none, an unparsable one, and the
\* lists without a repeated name over the names given
Ledgers(names) ==
    {Absent, Corrupt}
    \cup {to_yaml([i \in 1..Len(s) |-> MakeRecord(s[i])]) :
            s \in UNION {SetToSeqs(T) : T \in SUBSET names}}

InitFiles(names) ==
    /\ inv = [p \in Procs |-> Idle]
    /\ ledger \in Ledgers(names)
    /\ temp = Absent
    /\ artifacts \in SUBSET {Join(SystemBin, n) : n \in names}

\* one invocation after another, over two repositories
LifeInputs ==
    [names |-> {"owner/a"}, rnames |-> {"a", "b"}, locals |-> BOOLEAN, yeses |-> {TRUE},
     flags |-> {<<>>}, patches |-> {-1, 1},
     trees |-> {{}, {"Makefile"}, {"Cargo.toml", "Makefile"}},
     lines |-> {"1\n", "2\n", "abc\n"},
     answers |-> {"y\n"},
     contents |-> [manifest |-> {ManifestContent(TRUE, TRUE, "make", <<>>, <<>>)},
                   makefile |-> {MakefileContent(<<>>)},
                   configure |-> {ConfigureContent({})},
                   cargo |-> {CargoContent(FALSE, <<>>)},
                   none |-> {NoContent}],
     bins |-> {{"a"}}]

Init == InitFiles({"a", "b"})

Next == \E p \in {1} : Invoke(p, LifeInputs) \/ Step(p, LifeInputs) \/ Exit(p)

Spec == Init /\ [][Next]_vars

\* one invocation, over every backend
OnceInputs ==
    [names |-> {"owner/a"}, rnames |-> {"a", "b"}, locals |-> BOOLEAN, yeses |-> BOOLEAN,
     flags |-> {<<>>, <<"--verbose", "-j4">>}, patches |-> (-1)..MaxPatches,
     trees |-> {{}} \cup {{m} : m \in Markers}
               \cup {{"Cargo.toml", "Makefile"}, {"charoite.json", "requirements.txt"}},
     lines |-> {"1\n", "2\n", "9\n", "abc\n"},
     answers |-> {"y\n", "n\n", "yes\n", "\n"},
     contents |-> [manifest |->
                     {ManifestContent(FALSE, FALSE, "", <<>>, <<>>),
                      ManifestContent(TRUE, FALSE, "", <<>>, <<>>)}
                     \cup {ManifestContent(TRUE, TRUE, b, <<JsonStr("zlib")>>,
                                           <<JsonStr("--offline"), JsonStr("--locked")>>) :
                             b \in ManifestStrings},
                   makefile |-> {MakefileContent(<<>>),
                                 MakefileContent(<< <<"# DEPENDENCIES">>,
                                                    <<" zlib", " ncurses">> >>)},
                   configure |-> {ConfigureContent({}),
                                  ConfigureContent({"PKG_CHECK_MODULES", "AC_PROG_CC"})},
                   cargo |-> AllCargos,
                   none |-> {NoContent}],
     bins |-> {{}, {"a"}, {"a", "a-cli"}, {"tool"}}]

InitOnce == InitFiles({"a"})

NextOnce == \E p \in {1} : Invoke(p, OnceInputs) \/ Step(p, OnceInputs)

SpecOnce == InitOnce /\ [][NextOnce]_vars

\* the detector alone, entered as install enters it
InitDetect ==
    /\ inv = [p \in Procs |->
                IF p = 1
                THEN [Idle EXCEPT !.op = "install", !.pc = "detect", !.name = "a",
                         !.trace = <<[step |-> "clone", ok |-> TRUE]>>]
                ELSE Idle]
    /\ ledger = Absent
    /\ temp = Absent
    /\ artifacts = {}

NextDetect ==
    \/ DetectScan(1, DetectInputs)
    \/ DetectSelect(1, DetectInputs)
    \/ DetectExtract(1, DetectInputs)

SpecDetect == InitDetect /\ [][NextDetect]_vars

\* two invocations at once, each about to touch the ledger: process 1 has
\* installed a system-wide, process 2 has installed b or removes b
AtUpsert(n) ==
    [Idle EXCEPT !.op = "install", !.pc = "upsert", !.name = n,
        !.build_system = "Make", !.build_file = "Makefile",
        !.trace = <<[step |-> "install", ok |-> TRUE]>>]

AtRemove(n) == [Idle EXCEPT !.op = "remove", !.pc = "rm_read", !.name = n]

InitRace ==
    /\ ledger \in Ledgers({"b"})
    /\ temp = Absent
    /\ artifacts \in SUBSET {Join(SystemBin, "b")}
    /\ \E second \in {AtUpsert("b"), AtRemove("b")} :
          inv = [p \in Procs |->
                   [(IF p = 1 THEN AtUpsert("a") ELSE second)
                      EXCEPT !.ledger0 = ledger, !.artifacts0 = artifacts]]

NextRace ==
    \E p \in Procs :
        \/ UpsertRead(p)
        \/ UpsertWrite(p)
        \/ UpsertFlush(p)
        \/ UpsertMove(p)
        \/ RemoveRead(p)
        \/ RemoveDelete(p)
        \/ RemoveWrite(p)
        \/ RemoveFlush(p)
        \/ RemoveMove(p)

SpecRace == InitRace /\ [][NextRace]_vars

\* one remove, over ledgers whose record of a names a file in any directory
RemoveDirs ==
    {"/usr/bin", "/usr/local/bin", "/bin", "/sbin", "/usr/sbin",
     "/usr/local/bin/sub", "/usr/local/bin/../bin", "/usr", "/opt/bin",
     "~/.local/bin", "/usr/local/sbin", ""}

InitRemove ==
    /\ \E d \in RemoveDirs, others \in SUBSET {"b", "c"} :
          LET recs == SetToSeqs(others)
          IN  \E s \in recs : \E k \in 0..Len(s) :
                ledger = to_yaml(
                    [i \in 1..k |-> MakeRecord(s[i])]
                    \o <<InstalledPackage("a", "Make", Join(d, "a"), "Makefile")>>
                    \o [i \in 1..(Len(s) - k) |-> MakeRecord(s[k + i])])
    /\ temp = Absent
    /\ artifacts = {ledger.recs[i].location : i \in 1..Len(ledger.recs)}
    /\ inv = [p \in Procs |->
                IF p = 1
                THEN [AtRemove("a") EXCEPT !.ledger0 = ledger, !.artifacts0 = artifacts]
                ELSE Idle]

NextRemove ==
    \/ RemoveRead(1)
    \/ RemoveDelete(1)
    \/ RemoveWrite(1)
    \/ RemoveFlush(1)
    \/ RemoveMove(1)

SpecRemove == InitRemove /\ [][NextRemove]_vars

\* a remove of a that may be interrupted, and the invocations that come
\* after it has ended: removes of a and installs of a, one after another
LaterInputs ==
    [LifeInputs EXCEPT !.rnames = {"a"}, !.locals = {FALSE}, !.patches = {1},
                       !.trees = {{"Cargo.toml", "Makefile"}},
                       !.lines = {"1\n", "2\n"}]

InitInterrupt ==
    /\ ledger \in {l \in Ledgers({"a", "b"}) : l.kind = "yaml" /\ "a" \in {l.recs[i].name : i \in 1..Len(l.recs)}}
    /\ temp = Absent
    /\ artifacts = {ledger.recs[i].location : i \in 1..Len(ledger.recs)}
    /\ inv = [p \in Procs |->
                IF p = 1
                THEN [AtRemove("a") EXCEPT !.ledger0 = ledger, !.artifacts0 = artifacts]
                ELSE Idle]

NextInterrupt ==
    \/ \E p \in Procs : Step(p, LaterInputs)
    \/ inv[1].pc = "done" /\ Invoke(2, LaterInputs)
    \/ Exit(2)

SpecInterrupt == InitInterrupt /\ [][NextInterrupt]_vars

----------------------------------------------------------------------------
(* Properties *)

\* the names of the records of a ledger file
Names(f) == {f.recs[i].name : i \in 1..Len(f.recs)}

\* the records of a ledger file that carry a name
Named(f, name) == {i \in 1..Len(f.recs) : f.recs[i].name = name}

Steps(trace) == {trace[i].step : i \in 1..Len(trace)}

\* the invocation went through the whole upsert and mv exited with 0
Upserted(r) ==
    /\ r.op = "install" /\ r.pc = "done" /\ r.result = "Ok"
    /\ Started(r.trace, "upsert") /\ r.trace[Len(r.trace)].ok

\* C1: starting from an absent or duplicate-free ledger, whatever upserts
\* and removes have run, the ledger file holds at most one record per
\* package name.
C1_OneRecordPerName ==
    \A i, j \in 1..Len(ledger.recs) :
        i # j => ledger.recs[i].name # ledger.recs[j].name

\* an upsert has replaced the record of a name the ledger already held,
\* next to the record of another package
C1_Witness ==
    \E p \in Procs :
        /\ Upserted(inv[p])
        /\ inv[p].name \in Names(inv[p].ledger0)
        /\ ledger # inv[p].ledger0
        /\ Len(ledger.recs) >= 2

\* C2: after the upsert of a record for name N, also when the ledger
\* already held a record for N, the ledger holds exactly one record for N
\* and it is the record of this (the later) upsert.
C2_UpsertIdempotent ==
    \A p \in Procs :
        Upserted(inv[p]) =>
            /\ Cardinality(Named(ledger, inv[p].name)) = 1
            /\ \A i \in Named(ledger, inv[p].name) : ledger.recs[i] = NewPackage(inv[p])

\* the second upsert of a name: the ledger held a record for it with other
\* fields, and now holds the new one
C2_Witness ==
    \E p \in Procs :
        /\ Upserted(inv[p])
        /\ \E i \in Named(inv[p].ledger0, inv[p].name) :
              inv[p].ledger0.recs[i] # NewPackage(inv[p])
        /\ \E i \in Named(ledger, inv[p].name) : ledger.recs[i] = NewPackage(inv[p])

\* the ledger the invocation found has no record for the name: the file is
\* absent, or it parses and no record carries the name
NoRecordFor(r) ==
    \/ r.ledger0.kind = "absent"
    \/ r.ledger0.kind = "yaml" /\ r.name \notin Names(r.ledger0)

\* C3: remove(name) for a name without a record in the ledger (the ledger
\* file may not exist) returns a not-found error, deletes no file, never
\* gets to the deletion or to the temporary file, and leaves the ledger as
\* it was (an absent ledger stays absent).
C3_RemoveAbsentName ==
    \A p \in Procs :
        (inv[p].op = "remove" /\ NoRecordFor(inv[p])) =>
            /\ inv[p].pc \in {"rm_read", "done"}
            /\ ledger = inv[p].ledger0
            /\ artifacts = inv[p].artifacts0
            /\ (inv[p].pc = "done" /\ inv[p].result # "killed")
                  => inv[p].result = "Err_NotFound"

\* remove of a name the parsed, non-empty ledger does not hold, with files
\* of other packages on disk, has returned
C3_Witness ==
    \E p \in Procs :
        /\ inv[p].op = "remove" /\ inv[p].pc = "done"
        /\ inv[p].result = "Err_NotFound"
        /\ inv[p].ledger0.kind = "yaml" /\ inv[p].ledger0.recs # <<>>
        /\ inv[p].name \notin Names(inv[p].ledger0)
        /\ artifacts # {}

ErrResults == {"Err_NotFound", "Err_InvalidData", "Err_Other", "Err_Unsupported"}

\* C4: in remove(name), every failure before the ledger write (ledger file
\* missing, ledger unparsable, name not found, recorded artifact missing on
\* disk, the deletion command failing or not starting, which leaves the
\* file in place) returns an error and leaves the ledger file unchanged.
C4_RemoveFailureKeepsLedger ==
    \A p \in Procs :
        LET r == inv[p]
            hits == Named(r.ledger0, r.name)
            returned == r.pc = "done" /\ r.result # "killed"
            missing == r.ledger0.kind = "absent"
            unparsable == r.ledger0.kind \in {"corrupt", "partial"}
            notfound == r.ledger0.kind = "yaml" /\ hits = {}
            gone == \E i \in hits : r.ledger0.recs[i].location \notin r.artifacts0
            undeleted == /\ returned
                         /\ \E i \in hits : /\ r.ledger0.recs[i].location \in r.artifacts0
                                            /\ r.ledger0.recs[i].location \in artifacts
        IN  (r.op = "remove" /\ (missing \/ unparsable \/ notfound \/ gone \/ undeleted)) =>
                /\ ledger = r.ledger0
                /\ returned => r.result \in ErrResults

\* remove has returned after its deletion command failed: the record was
\* found, its file is still there
C4_Witness ==
    \E p \in Procs :
        /\ inv[p].op = "remove" /\ inv[p].pc = "done"
        /\ inv[p].result = "Err_Other"
        /\ \E i \in Named(inv[p].ledger0, inv[p].name) :
              /\ inv[p].ledger0.recs[i].location \in inv[p].artifacts0
              /\ inv[p].ledger0.recs[i].location \in artifacts
        /\ ledger = inv[p].ledger0

\* the order of the steps of install, and the steps a step may follow
StepOrder ==
    <<"clone", "patch", "detect", "pkg_config", "check_deps", "build",
      "pip_requirements", "install", "upsert">>

Predecessors(step) ==
    CASE step = "clone" -> {}
      [] step = "patch" -> {"clone"}
      [] step = "detect" -> {"clone", "patch"}
      [] step = "pkg_config" -> {"detect"}
      [] step = "check_deps" -> {"pkg_config"}
      [] step = "build" -> {"check_deps"}
      [] step = "pip_requirements" -> {"build"}
      [] step = "install" -> {"build", "pip_requirements"}
      [] step = "upsert" -> {"install"}
      [] OTHER -> {}

\* the steps begun so far follow one another as StepOrder allows
InStepOrder(trace) ==
    \A i \in 1..Len(trace) :
        /\ trace[i].step \in Range(StepOrder)
        /\ IF i = 1 THEN trace[i].step = "clone"
           ELSE trace[i - 1].step \in Predecessors(trace[i].step)

\* C5 as stated: the steps of an install occur only in the order clone,
\* patch, detect, pkg-config confirmation, dependency check, build, Pip
\* requirements, install, upsert, and no step starts unless the step before
\* it completed successfully.
C5_StrictOrder ==
    \A p \in Procs :
        inv[p].op = "install" =>
            /\ InStepOrder(inv[p].trace)
            /\ \A i \in 2..Len(inv[p].trace) : inv[p].trace[i - 1].ok

\* C5 amended: the same order, and no step starts unless the step before it
\* completed successfully, except that detection starts after the patch
\* step whether or not every patch applied.
C5_OrderExceptPatch ==
    \A p \in Procs :
        inv[p].op = "install" =>
            /\ InStepOrder(inv[p].trace)
            /\ \A i \in 2..Len(inv[p].trace) :
                  inv[p].trace[i - 1].ok \/ inv[p].trace[i - 1].step = "patch"

\* an install ran to the end of its upsert although a patch did not apply
C5_Witness ==
    \E p \in Procs :
        /\ Upserted(inv[p])
        /\ \E i \in 1..Len(inv[p].trace) :
              inv[p].trace[i].step = "patch" /\ ~inv[p].trace[i].ok
        /\ Len(inv[p].ran) >= 2

\* what the mutation the invocation is making leaves in the ledger
NewLedger(r) ==
    IF r.op = "install"
    THEN to_yaml(Upsert(ReadOrDefault(r.ledger0), NewPackage(r)))
    ELSE to_yaml(Retain(from_yaml(r.ledger0).recs, r.name))

\* C6: a ledger mutation (upsert or delete) writes the whole new list to
\* the temporary file and then moves it onto the ledger, so at every point
\* of the operation, an interruption at any step included, the ledger file
\* holds the whole previous content or the whole new list, never a part.
C6_AtomicReplace ==
    \A p \in Procs :
        inv[p].op # "idle" =>
            /\ ledger \in {inv[p].ledger0, NewLedger(inv[p])}
            /\ ledger.kind # "partial"
            /\ inv[p].pc \in {"upsert_mv", "rm_mv"} => temp = NewLedger(inv[p])

UpsertPcs == {"upsert", "upsert_write", "upsert_flush", "upsert_mv", "upsert_cp"}

\* C7: a ledger record is created or replaced only by a successful
\* system-wide install: an install with the local flag never gets to the
\* upsert (no read, no temporary file, no move), also when the ledger holds
\* a record of the same name, and an install that has not begun its upsert
\* leaves the ledger as it found it.
C7_OnlySystemInstallWrites ==
    \A p \in Procs :
        inv[p].op = "install" =>
            /\ inv[p].local =>
                  /\ inv[p].pc \notin UpsertPcs
                  /\ "upsert" \notin Steps(inv[p].trace)
                  /\ ledger = inv[p].ledger0
                  /\ temp = Absent
            /\ "upsert" \notin Steps(inv[p].trace) => ledger = inv[p].ledger0
            /\ ledger # inv[p].ledger0 =>
                  /\ ~inv[p].local
                  /\ \E i \in 1..Len(inv[p].trace) :
                        inv[p].trace[i].step = "install" /\ inv[p].trace[i].ok

\* a local install of a name the ledger holds has finished
C7_Witness ==
    \E p \in Procs :
        /\ inv[p].op = "install" /\ inv[p].local
        /\ inv[p].pc = "done" /\ inv[p].msg = "INSTALL FINISHED"
        /\ inv[p].name \in Names(ledger)

\* C8: for a source tree without any marker, detection yields Unknown and
\* install ends with "Unsupported build system" before a dependency check,
\* a build command, an install command or a ledger mutation; Unknown never
\* reaches the build or the install step.
C8_NoMarkerAborts ==
    \A p \in Procs :
        /\ (inv[p].op = "install" /\ inv[p].nfiles = 0) =>
              /\ inv[p].tree = {}
              /\ inv[p].pc \in {"select", "detected", "done"}
              /\ inv[p].build_system = "Unknown"
              /\ Steps(inv[p].trace) \subseteq {"clone", "patch", "detect"}
              /\ inv[p].checked = 0 /\ inv[p].ran = <<>>
              /\ ledger = inv[p].ledger0 /\ temp = Absent
              /\ artifacts = inv[p].artifacts0
              /\ (inv[p].pc = "done" /\ inv[p].result # "killed") =>
                    inv[p].result = "Ok" /\ inv[p].msg = "Unsupported build system"
        /\ inv[p].pc \in {"pkg_config", "check_deps", "build", "pip", "install",
                          "cargo_copy"} \cup UpsertPcs
              => inv[p].build_system # "Unknown"

\* install has returned on a tree without marker
C8_Witness ==
    \E p \in Procs :
        /\ inv[p].op = "install" /\ inv[p].nfiles = 0 /\ inv[p].tree = {}
        /\ inv[p].pc = "done" /\ inv[p].msg = "Unsupported build system"

\* the backend of each marker file
MarkerBackend(m) ==
    CASE m = "Cargo.toml" -> "Cargo"
      [] m = "Makefile" -> "Make"
      [] m = "configure" -> "Autotools"
      [] m = "CMakeLists.txt" -> "Cmake"
      [] m = "meson.build" -> "Meson"
      [] m = "build.ninja" -> "Ninja"
      [] m = "*.nimble" -> "Nimble"
      [] m = "stack.yaml" -> "Stack"
      [] m = "requirements.txt" -> "Pip"
      [] OTHER -> "Unknown"

\* C9: for a source tree with exactly one marker, detection selects that
\* marker and returns its backend (for a custom manifest, the backend the
\* manifest names) without prompting: no line is read from the operator.
C9_SingleMarker ==
    \A p \in Procs :
        (inv[p].nfiles >= 0 /\ Cardinality(inv[p].tree) = 1) =>
            LET m == CHOOSE m \in inv[p].tree : TRUE
            IN  /\ ~inv[p].prompted /\ inv[p].line = ""
                /\ inv[p].pc \in {"extract", "detected"} => inv[p].selected[1] = m
                /\ inv[p].pc = "detected" =>
                      /\ inv[p].build_file = m
                      /\ inv[p].build_system =
                            IF IsManifest(m) THEN parse_charoite_json(inv[p].content).bs
                            ELSE MarkerBackend(m)

\* detection has returned Stack for a tree whose only marker is stack.yaml
C9_Witness ==
    \E p \in Procs :
        /\ inv[p].tree = {"stack.yaml"} /\ inv[p].pc = "detected"
        /\ inv[p].build_system = "Stack" /\ ~inv[p].prompted

\* the markers in the order detection looks for them
DiscoveryOrder ==
    <<"radon.json", "charoite.json", "Cargo.toml", "Makefile", "configure",
      "CMakeLists.txt", "meson.build", "build.ninja", "*.nimble", "stack.yaml",
      "requirements.txt">>

\* the k-th marker of a tree in discovery order
Listed(tree) == SelectSeq(DiscoveryOrder, LAMBDA m : m \in tree)

\* the number an operator's line stands for, 0 when it is none
Chosen(line) ==
    CASE line \in {"1\n", "+1\n"} -> 1
      [] line \in {"2\n", " 2 \n"} -> 2
      [] line = "3\n" -> 3
      [] line = "4\n" -> 4
      [] line = "9\n" -> 9
      [] OTHER -> 0

\* C10: with n > 1 markers, detection lists them numbered 1..n in the
\* discovery order and reads one choice: k with 1 <= k <= n selects the
\* k-th marker listed; any other input (0, a number above n, text that is
\* no number) yields Unknown with no build file, dependencies or flags, as
\* for a tree without marker.
C10_Choice ==
    \A p \in Procs :
        (inv[p].nfiles >= 0 /\ Cardinality(inv[p].tree) > 1
            /\ inv[p].pc \in {"extract", "detected", "done"}) =>
            LET n == Cardinality(inv[p].tree)
                k == Chosen(inv[p].line)
            IN  /\ inv[p].prompted
                /\ [i \in 1..Len(inv[p].build_files) |-> inv[p].build_files[i][1]]
                      = Listed(inv[p].tree)
                /\ IF 1 <= k /\ k <= n
                   THEN inv[p].selected[1] = Listed(inv[p].tree)[k]
                   ELSE /\ inv[p].pc = "detected"
                        /\ inv[p].selected = NoSelection
                        /\ inv[p].build_system = "Unknown" /\ inv[p].build_file = ""
                        /\ inv[p].deps = <<>> /\ inv[p].custom_flags = <<>>

\* the second of two markers was chosen and its backend returned
C10_Witness ==
    \E p \in Procs :
        /\ inv[p].tree = {"Cargo.toml", "Makefile"} /\ inv[p].line = "2\n"
        /\ inv[p].pc = "detected" /\ inv[p].build_file = "Makefile"
        /\ inv[p].build_system = "Make"

\* the backend each build_system string of a custom manifest names
NamedBackend(s) ==
    CASE s = "make" -> "Make"
      [] s = "autotools" -> "Autotools"
      [] s = "cargo" -> "Cargo"
      [] s = "cmake" -> "Cmake"
      [] s = "meson" -> "Meson"
      [] s = "ninja" -> "Ninja"
      [] s = "nimble" -> "Nimble"
      [] s = "stack" -> "Stack"
      [] s = "pip" -> "Pip"
      [] OTHER -> "Unknown"

\* the strings of a JSON array, in the order of the array
StringsOf(arr) ==
    LET strs == SelectSeq(arr, LAMBDA v : v.str)
    IN  [i \in 1..Len(strs) |-> strs[i].s]

\* C11: when the selected marker is a custom manifest, the backend of the
\* detection result is the one the manifest's build_system string names,
\* and its dependencies and flags are the strings of the manifest's
\* dependencies and flags arrays, in order (the whole array when all its
\* elements are strings): the extractor of the backend adds nothing.
C11_ManifestVerbatim ==
    \A p \in Procs :
        (inv[p].pc = "detected" /\ IsManifest(inv[p].build_file)) =>
            LET c == inv[p].content
            IN  /\ c.kind = "manifest" /\ c.valid
                /\ c.has_bs => inv[p].build_system = NamedBackend(c.build_system)
                /\ inv[p].deps = StringsOf(c.dependencies)
                /\ inv[p].custom_flags = StringsOf(c.flags)
                /\ (\A i \in 1..Len(c.dependencies) : c.dependencies[i].str) =>
                      /\ Len(inv[p].deps) = Len(c.dependencies)
                      /\ \A i \in 1..Len(c.dependencies) :
                            inv[p].deps[i] = c.dependencies[i].s

\* a manifest naming cargo with two dependencies and a flag was selected
C11_Witness ==
    \E p \in Procs :
        /\ inv[p].pc = "detected" /\ inv[p].build_file = "charoite.json"
        /\ inv[p].content.has_bs /\ inv[p].content.build_system = "cargo"
        /\ inv[p].build_system = "Cargo"
        /\ inv[p].deps = <<"zlib", "ncurses">>
        /\ inv[p].custom_flags = <<"--offline">>

\* C12: in the build step the commands of the backend's sequence run one
\* after another in their order, and no command runs after one that exited
\* non-zero or did not start (make never after a failed ./configure,
\* cmake --build never after a failed cmake ..); the failure ends install
\* with an error, and no Pip requirements step, install step or ledger
\* upsert follows it.
C12_BuildAborts ==
    \A p \in Procs :
        inv[p].op = "install" =>
            LET r == inv[p]
                n == Len(r.ran)
            IN  /\ n <= Len(BuildCommands(r.build_system))
                /\ \A i \in 1..n : r.ran[i].cmd = BuildCommands(r.build_system)[i]
                /\ \A i \in 1..(n - 1) : r.ran[i].ok
                /\ \A i \in 1..n :
                      /\ (r.build_system = "Autotools" /\ r.ran[i].cmd = "make") =>
                            i = 2 /\ r.ran[1] = [cmd |-> "./configure", ok |-> TRUE]
                      /\ r.ran[i].cmd = "cmake --build" =>
                            i = 3 /\ r.ran[2] = [cmd |-> "cmake ..", ok |-> TRUE]
                /\ (\E i \in 1..n : ~r.ran[i].ok) =>
                      /\ r.pc = "done" /\ r.result = "Err_Other"
                      /\ Steps(r.trace) \cap {"pip_requirements", "install", "upsert"} = {}
                      /\ ledger = r.ledger0 /\ temp = Absent
                      /\ artifacts = r.artifacts0

\* an Autotools build ended at a failed ./configure
C12_Witness ==
    \E p \in Procs :
        /\ inv[p].build_system = "Autotools" /\ inv[p].pc = "done"
        /\ inv[p].ran = <<[cmd |-> "./configure", ok |-> FALSE]>>
        /\ inv[p].result = "Err_Other"

\* the answers that are y or Y once trimmed
Affirmative == {"y\n", "Y\n", " y \n"}

\* C13: when pkg-config usage was not detected and the skip-confirmation
\* flag is not set, the operator is asked, and an answer that is not y
\* ends install there: no dependency was checked, no build command and no
\* install command ran, and the ledger, the temporary file and the
\* installed files are as they were found.
C13_DeclineAborts ==
    \A p \in Procs :
        inv[p].op = "install" =>
            /\ inv[p].asked <=> (inv[p].warned /\ ~inv[p].yes)
            /\ (inv[p].asked /\ inv[p].answer \notin Affirmative) =>
                  /\ inv[p].pc = "done" /\ inv[p].result = "Ok"
                  /\ inv[p].msg = "Build cancelled by user"
                  /\ inv[p].checked = 0 /\ inv[p].ran = <<>>
                  /\ Steps(inv[p].trace) \cap
                        {"check_deps", "build", "pip_requirements", "install", "upsert"} = {}
                  /\ ledger = inv[p].ledger0 /\ temp = Absent
                  /\ artifacts = inv[p].artifacts0

\* the operator pressed return at the prompt of a Make project that has
\* dependencies to check
C13_Witness ==
    \E p \in Procs :
        /\ inv[p].build_system = "Make" /\ inv[p].asked /\ inv[p].answer = "\n"
        /\ inv[p].deps # <<>>
        /\ inv[p].pc = "done" /\ inv[p].msg = "Build cancelled by user"

\* C14: a ledger whose content does not parse is never discarded: remove
\* and the upsert of install, once they have read it, end with an error,
\* and the file is left as it was found (no list built from an empty
\* ledger is written over it).
C14_CorruptLedgerSurfaced ==
    \A p \in Procs :
        inv[p].ledger0.kind \in {"corrupt", "partial"} =>
            /\ ledger = inv[p].ledger0
            /\ (/\ inv[p].pc = "done" /\ inv[p].result # "killed"
                /\ inv[p].op = "remove" \/ "upsert" \in Steps(inv[p].trace))
                  => inv[p].result \in ErrResults \cup {"panic"}

\* C15: when a dependency of the detection result is not found, the
\* process ends at the dependency check with exit status 1: the
\* dependencies after it are not checked, no build command and no install
\* command runs, and the ledger is not touched; the build starts only when
\* every dependency was found.
C15_MissingDependencyExits ==
    \A p \in Procs :
        inv[p].op = "install" =>
            /\ inv[p].missing > 0 =>
                  /\ inv[p].pc = "done" /\ inv[p].result = "exit1"
                  /\ inv[p].missing = 1
                  /\ inv[p].checked < Len(inv[p].deps)
                  /\ inv[p].ran = <<>>
                  /\ Steps(inv[p].trace) \cap
                        {"build", "pip_requirements", "install", "upsert"} = {}
                  /\ inv[p].trace[Len(inv[p].trace)] = [step |-> "check_deps", ok |-> FALSE]
                  /\ ledger = inv[p].ledger0 /\ temp = Absent
                  /\ artifacts = inv[p].artifacts0
            /\ "build" \in Steps(inv[p].trace) =>
                  inv[p].missing = 0 /\ inv[p].checked = Len(inv[p].deps)

\* the first of the two dependencies of a Meson project is missing
C15_Witness ==
    \E p \in Procs :
        /\ inv[p].deps = <<"meson", "ninja">> /\ inv[p].checked = 0
        /\ inv[p].missing = 1 /\ inv[p].result = "exit1"

\* the ledger shows the mutation an invocation made
Reflected(r) ==
    /\ ledger.kind = "yaml"
    /\ IF r.op = "install" THEN r.name \in Names(ledger) ELSE r.name \notin Names(ledger)

\* an invocation that changes what it read: an install of a name the ledger
\* did not hold, a remove of a name it held
Mutates(r) ==
    /\ r.seen.kind \in {"absent", "yaml"}
    /\ IF r.op = "install" THEN r.name \notin Names(r.seen) ELSE r.name \in Names(r.seen)

BothCompleted ==
    \A p \in Procs : inv[p].pc = "done" /\ inv[p].msg \in {"INSTALL FINISHED", "Removed"}

\* C16: nothing guards the ledger. When two invocations have both read the
\* same ledger before either replaced it, and both complete, the ledger
\* never shows both mutations: the list moved last was built without the
\* other's record (or deletion), so one of the two updates is lost.
C16_LostUpdate ==
    (/\ BothCompleted
     /\ inv[1].seen = inv[2].seen
     /\ Mutates(inv[1]) /\ Mutates(inv[2]))
        => ~(Reflected(inv[1]) /\ Reflected(inv[2]))

\* both installs reported success and the ledger holds only one of the
\* two new records
C16_Witness ==
    /\ BothCompleted
    /\ inv[1].op = "install" /\ inv[2].op = "install"
    /\ inv[1].result = "Ok" /\ inv[2].result = "Ok"
    /\ inv[1].trace[Len(inv[1].trace)].ok /\ inv[2].trace[Len(inv[2].trace)].ok
    /\ inv[1].seen = inv[2].seen /\ Mutates(inv[1]) /\ Mutates(inv[2])
    /\ ledger.kind = "yaml"
    /\ Cardinality({"a", "b"} \cap Names(ledger)) = 1

\* how many times a step was begun
Count(trace, step) == Cardinality({i \in 1..Len(trace) : trace[i].step = step})

\* C17: a Cargo install that succeeds has copied every regular file of the
\* release directory into the bin path; system-wide, it makes one upsert,
\* of one record named after the repository (the last segment of the repo
\* reference), and no record named after a copied file; an empty release
\* directory ends install with an error, nothing copied and no upsert.
C17_CargoCopiesAll ==
    \A p \in Procs :
        (inv[p].op = "install" /\ inv[p].build_system = "Cargo") =>
            LET r == inv[p]
                bin_path == IF r.local THEN LocalBin ELSE SystemBin
            IN  /\ (r.pc \in UpsertPcs \/ (r.pc = "done" /\ r.msg = "INSTALL FINISHED")) =>
                      /\ r.release # {}
                      /\ \A f \in r.release : <<bin_path, f>> \in artifacts
                /\ Count(r.trace, "upsert") <= 1
                /\ Upserted(r) =>
                      /\ ~r.local /\ Count(r.trace, "upsert") = 1
                      /\ r.repo = "owner/a" /\ r.name = "a"
                      /\ Cardinality(Named(ledger, "a")) = 1
                      /\ Names(ledger) \subseteq Names(r.ledger0) \cup {"a"}
                /\ r.msg = "No binaries found in target/release" =>
                      /\ r.pc = "done" /\ r.result = "Err_NotFound"
                      /\ r.release = {} /\ artifacts = r.artifacts0
                      /\ "upsert" \notin Steps(r.trace) /\ ledger = r.ledger0

\* both files of the release directory were copied and the ledger got the
\* one record of the repository
C17_Witness ==
    \E p \in Procs :
        /\ Upserted(inv[p]) /\ inv[p].build_system = "Cargo"
        /\ inv[p].release = {"a", "a-cli"}
        /\ {<<SystemBin, "a">>, <<SystemBin, "a-cli">>} \subseteq artifacts
        /\ "a" \in Names(ledger) /\ "a-cli" \notin Names(ledger)

\* C18: the flag list handed to the build step is the extracted flags (the
\* custom manifest's; a backend extractor gives none) followed by the
\* operator's flags: every operator flag after every extracted flag, each
\* group in its own order.
C18_FlagsMerged ==
    \A p \in Procs :
        (inv[p].op = "install" /\ "build" \in Steps(inv[p].trace)) =>
            LET r == inv[p]
                e == Len(r.custom_flags)
            IN  /\ r.custom_flags = IF IsManifest(r.build_file)
                                    THEN StringsOf(r.content.flags) ELSE <<>>
                /\ Len(r.final_flags) = e + Len(r.flags)
                /\ \A i \in 1..e : r.final_flags[i] = r.custom_flags[i]
                /\ \A j \in 1..Len(r.flags) : r.final_flags[e + j] = r.flags[j]

\* two flags of a manifest and two of the operator reached the build
C18_Witness ==
    \E p \in Procs :
        /\ "build" \in Steps(inv[p].trace)
        /\ inv[p].custom_flags = <<"--offline", "--locked">>
        /\ inv[p].flags = <<"--verbose", "-j4">>
        /\ inv[p].final_flags = <<"--offline", "--locked", "--verbose", "-j4">>

\* C19: for Pip with a requirements file, the requirements installation
\* runs before the main install step, and when it exits non-zero or cannot
\* be run install returns an error: pip install . never runs and the
\* ledger is not modified. No other backend has the step.
C19_PipRequirementsFirst ==
    \A p \in Procs :
        inv[p].op = "install" =>
            LET r == inv[p]
                t == r.trace
            IN  /\ "pip_requirements" \in Steps(t) => r.build_system = "Pip"
                /\ (r.build_file = "requirements.txt" /\ "install" \in Steps(t)) =>
                      "pip_requirements" \in Steps(t)
                /\ \A i, j \in 1..Len(t) :
                      (t[i].step = "pip_requirements" /\ t[j].step = "install") =>
                          i < j /\ t[i].ok
                /\ (\E i \in 1..Len(t) : t[i].step = "pip_requirements" /\ ~t[i].ok) =>
                      /\ r.pc = "done" /\ r.result = "Err_Other"
                      /\ r.msg \in {"Failed to install Python dependencies",
                                    "Failed to run pip"}
                      /\ Steps(t) \cap {"install", "upsert"} = {}
                      /\ ledger = r.ledger0 /\ temp = Absent
                      /\ artifacts = r.artifacts0

\* pip install -r requirements.txt exited non-zero
C19_Witness ==
    \E p \in Procs :
        /\ inv[p].build_system = "Pip" /\ inv[p].build_file = "requirements.txt"
        /\ inv[p].pc = "done"
        /\ inv[p].msg = "Failed to install Python dependencies"
        /\ inv[p].trace[Len(inv[p].trace)] = [step |-> "pip_requirements", ok |-> FALSE]

\* C20: remove deletes the recorded file with the privilege command if and
\* only if the directory that holds the file is one of /usr/bin,
\* /usr/local/bin, /bin, /sbin, /usr/sbin; for a file in any other
\* directory the deletion runs as plain rm.
C20_ElevationBySystemDir ==
    \A p \in Procs :
        (inv[p].op = "remove" /\ inv[p].ran # <<>>) =>
            LET dir == inv[p].location[1]
                system == dir = "/usr/bin" \/ dir = "/usr/local/bin" \/ dir = "/bin"
                             \/ dir = "/sbin" \/ dir = "/usr/sbin"
            IN  /\ Len(inv[p].ran) = 1
                /\ inv[p].location \in
                      {inv[p].ledger0.recs[i].location : i \in Named(inv[p].ledger0, inv[p].name)}
                /\ system <=> inv[p].ran[1].cmd = "privileged rm -f"
                /\ ~system <=> inv[p].ran[1].cmd = "rm -f"

\* a file in a directory below a system directory was deleted without
\* elevation
C20_Witness ==
    \E p \in Procs :
        /\ inv[p].op = "remove" /\ inv[p].location = <<"/usr/local/bin/sub", "a">>
        /\ inv[p].ran = <<[cmd |-> "rm -f", ok |-> TRUE]>>
        /\ inv[p].location \notin artifacts

(***************************************************************************)
(* C21: the pkg-config warning and its confirmation prompt belong to the   *)
(* Autotools, Make, CMake and Meson backends only.  For Autotools the      *)
(* usage is always detected, so there is neither warning nor prompt; for   *)
(* Cargo, Ninja, Nimble, Stack and Pip the install goes from detection to  *)
(* the dependency check without a warning and without a prompt.            *)
(***************************************************************************)
HeuristicBackends == {"Autotools", "Make", "Cmake", "Meson"}

C21_HeuristicOnlyFour ==
    \A p \in Procs :
        inv[p].op = "install" =>
            /\ inv[p].build_system = "Autotools" =>
                   ~inv[p].warned /\ ~inv[p].asked
            /\ inv[p].build_system \notin HeuristicBackends =>
                   ~inv[p].warned /\ ~inv[p].asked

(***************************************************************************)
(* C22: a patch that fails to apply (patch exits non-zero) is reported but *)
(* does not halt the pipeline: the remaining patches are still attempted,  *)
(* and detection, build and install go on after the patch step.            *)
(***************************************************************************)
PatchFailedIn(r) ==
    \E i \in 1..Len(r.trace) : r.trace[i].step = "patch" /\ ~r.trace[i].ok

\* a step of the patch loop in which the patch command could be started
PatchStep(p) ==
    /\ inv[p].pc = "patch"
    /\ inv'[p] # inv[p]
    /\ inv'[p].result \notin {"panic", "killed"}

C22_PatchFailureContinues ==
    /\ [][\A p \in Procs :
            PatchStep(p) =>
                /\ inv'[p].result = "none"
                /\ IF inv[p].patches > 0
                   THEN /\ inv'[p].pc = "patch"
                        /\ inv'[p].patches = inv[p].patches - 1
                   ELSE inv'[p].pc = "detect"]_vars
    /\ [](\A p \in Procs :
            /\ PatchFailedIn(inv[p])
            /\ inv[p].result \notin {"none", "panic", "killed"}
            => "detect" \in Steps(inv[p].trace))

C22_Witness ==
    \E p \in Procs : PatchFailedIn(inv[p]) /\ Upserted(inv[p])

(***************************************************************************)
(* C23: a successful remove(name) deletes the recorded artifact and        *)
(* persists a ledger equal to the previous ledger with exactly the record  *)
(* named name filtered out: every other record is unchanged and keeps its  *)
(* place relative to the others.                                           *)
(***************************************************************************)
\* recs is olds without the records named name, the others in their order
FilteredOut(olds, name, recs) ==
    LET dropped(i) == Cardinality({j \in 1..(i - 1) : olds[j].name = name})
    IN  /\ Len(recs) = Cardinality({i \in 1..Len(olds) : olds[i].name # name})
        /\ \A i \in 1..Len(olds) :
              olds[i].name # name => recs[i - dropped(i)] = olds[i]

RemoveSucceeded(r) == r.op = "remove" /\ r.pc = "done" /\ r.result = "Ok"

C23_RemoveFiltersOneRecord ==
    \A p \in Procs :
        RemoveSucceeded(inv[p]) =>
            /\ inv[p].location \notin artifacts
            /\ artifacts = inv[p].artifacts0 \ {inv[p].location}
            /\ ledger.kind = "yaml"
            /\ FilteredOut(inv[p].ledger0.recs, inv[p].name, ledger.recs)

(***************************************************************************)
(* C24: for a tree whose only marker is Makefile, detection returns the    *)
(* backend Make, no flags, and as dependencies the comma-separated,        *)
(* whitespace-trimmed items listed after '# DEPENDENCIES:' on the first    *)
(* line that contains it, in the listed order; without such a line the     *)
(* dependencies are empty.                                                 *)
(***************************************************************************)
\* the ':'-separated piece of the line that ends with "# DEPENDENCIES"
MarkerPiece(line) ==
    CHOOSE i \in 1..Len(line) :
        /\ TrimItem(line[i][Len(line[i])]) = "# DEPENDENCIES"
        /\ \A j \in 1..(i - 1) : TrimItem(line[j][Len(line[j])]) # "# DEPENDENCIES"

\* the items listed after the marker, trimmed
ListedItems(line) ==
    IF line = <<>> THEN <<>>
    ELSE LET items == line[MarkerPiece(line) + 1]
         IN  [i \in 1..Len(items) |-> TrimItem(items[i])]

C24_MakefileDependencies ==
    \A p \in Procs :
        (inv[p].pc = "detected" /\ inv[p].tree = {"Makefile"}) =>
            /\ inv[p].build_system = "Make"
            /\ inv[p].build_file = "Makefile"
            /\ inv[p].custom_flags = <<>>
            /\ inv[p].deps = ListedItems(inv[p].content.line)

(***************************************************************************)
(* C25: for a Cargo project chosen by generic detection (the marker        *)
(* Cargo.toml, not a custom manifest), the dependencies equal the list in  *)
(* the table package.metadata.charoite.dependencies of Cargo.toml when the *)
(* file has one, and are empty when it has none.                           *)
(***************************************************************************)
C25_CargoMetadataDependencies ==
    \A p \in Procs :
        (inv[p].pc = "detected" /\ inv[p].build_file = "Cargo.toml") =>
            /\ inv[p].build_system = "Cargo"
            /\ inv[p].content.kind = "cargo"
            /\ inv[p].deps = StringsOf(inv[p].content.dependencies)

(***************************************************************************)
(* C26: when the install step fails, for any backend (the install command  *)
(* fails, the Cargo release directory holds no file, the Stack output      *)
(* directory lacks a file named as the package, pip is missing, a copy     *)
(* fails), install returns an error and performs no ledger upsert: the     *)
(* ledger is the one before the call.  Files already copied into the bin   *)
(* directory are not rolled back.                                          *)
(***************************************************************************)
InstallStepFailed(r) ==
    /\ r.op = "install"
    /\ \E i \in 1..Len(r.trace) : r.trace[i].step = "install" /\ ~r.trace[i].ok

C26_InstallFailureSkipsUpsert ==
    \A p \in Procs :
        InstallStepFailed(inv[p]) =>
            /\ inv[p].pc = "done"
            /\ inv[p].result \in ErrResults
            /\ "upsert" \notin Steps(inv[p].trace)
            /\ ledger = inv[p].ledger0
            /\ temp = Absent
            /\ inv[p].artifacts0 \subseteq artifacts
            \* of the Cargo binaries the copy loop went through, all but
            \* the one whose copy failed are in the bin directory
            /\ \A f \in inv[p].release \ inv[p].bins :
                  \/ Join(get_install_path(inv[p].local).bin_path, f) \in artifacts
                  \/ Cardinality((inv[p].release \ inv[p].bins)
                        \ {g \in inv[p].release :
                             Join(get_install_path(inv[p].local).bin_path, g) \in artifacts}) = 1

\* a system-wide Cargo install failed at its second copy: the first binary
\* stays in the bin directory and the ledger has no record
C26_Witness ==
    \E p \in Procs :
        /\ InstallStepFailed(inv[p])
        /\ inv[p].build_system = "Cargo" /\ ~inv[p].local
        /\ inv[p].release = {"a", "a-cli"} /\ inv[p].bins = {}
        /\ inv[p].artifacts0 = {}
        /\ Cardinality(artifacts) = 1
        /\ ledger = inv[p].ledger0 /\ inv[p].result = "Err_Other"

(***************************************************************************)
(* C27: the upsert of a record named N removes the record named N the      *)
(* list read from the ledger may hold and appends the new record: in the   *)
(* list the upsert writes, and in the ledger once the move has put it      *)
(* there, the new record is the last element and all other records are     *)
(* unchanged and in their relative order.                                  *)
(***************************************************************************)
\* recs is the list read by r without its records named r.name, followed
\* by the record of this install
UpsertedList(r, recs) ==
    /\ Len(recs) >= 1
    /\ recs[Len(recs)] = NewPackage(r)
    /\ recs[Len(recs)].name = r.name
    /\ FilteredOut(r.seen.recs, r.name, SubSeq(recs, 1, Len(recs) - 1))

StaleIn(l, files, n) ==
    l.kind = "yaml" /\ \E i \in Named(l, n) : l.recs[i].location \notin files

\* the remove was killed between its deletion and its move
InterruptedAfterDelete(p) ==
    /\ inv[p].op = "remove"
    /\ inv[p].pc \in {"rm_write", "rm_flush", "rm_mv"}
    /\ inv'[p].result = "killed"

C28_StaleRecordStays ==
    /\ [][\A p \in Procs :
            InterruptedAfterDelete(p) =>
                /\ StaleIn(ledger', artifacts', inv[p].name)
                /\ ledger' = inv[p].ledger0]_vars
    /\ [](\A p \in Procs :
            (inv[p].op = "remove"
               /\ StaleIn(inv[p].ledger0, inv[p].artifacts0, inv[p].name)) =>
                /\ inv[p].pc \in {"rm_read", "done"}
                /\ inv[p].pc = "done" =>
                      \/ inv[p].result = "killed"
                      \/ inv[p].result = "Err_NotFound" /\ inv[p].msg = "File not found"
                /\ inv[p].ran = <<>>
                /\ ledger = inv[p].ledger0
                /\ artifacts = inv[p].artifacts0)
    /\ [][\A n \in {"a", "b"} :
            (StaleIn(ledger, artifacts, n) /\ ~StaleIn(ledger', artifacts', n)) =>
                \* the record goes, or the file comes back, only by an
                \* install of the name, or as the remove that deleted the
                \* file itself gets to its move
                \E p \in Procs :
                    /\ inv[p].name = n /\ inv'[p] # inv[p]
                    /\ \/ inv[p].op = "install"
                       \/ inv[p].op = "remove" /\ inv[p].pc \in {"rm_mv", "rm_cp"}]_vars

\* the first remove of a was killed after its rm and before its mv; a later
\* remove of a has failed at the existence test, the record still there
C28_Witness ==
    /\ inv[1].op = "remove" /\ inv[1].result = "killed"
    /\ inv[1].ran = <<[cmd |-> "privileged rm -f", ok |-> TRUE]>>
    /\ inv[2].op = "remove" /\ inv[2].name = inv[1].name
    /\ inv[2].result = "Err_NotFound" /\ inv[2].msg = "File not found"
    /\ ledger = inv[1].ledger0
    /\ StaleIn(ledger, artifacts, inv[1].name)

(***************************************************************************)
(* C29: a failure to write the ledger is reported and never presented as   *)
(* success: a system-wide install ends with the finished message, and      *)
(* remove prints 'Removed' and returns Ok, only if the elevated move of    *)
(* the temporary file onto the ledger succeeded, so that the ledger then   *)
(* holds what the operation wrote.                                         *)
(***************************************************************************)
InstallFinished(r) ==
    /\ r.op = "install" /\ ~r.local
    /\ r.pc = "done" /\ r.result = "Ok" /\ r.msg = "INSTALL FINISHED"

C29_WriteFailureReported ==
    \A p \in Procs :
        /\ InstallFinished(inv[p]) =>
              /\ Upserted(inv[p])
              /\ ledger.kind = "yaml"
              /\ \E i \in Named(ledger, inv[p].name) : ledger.recs[i] = NewPackage(inv[p])
        /\ (RemoveSucceeded(inv[p]) /\ inv[p].msg = "Removed") =>
              /\ ledger.kind = "yaml"
              /\ inv[p].name \notin Names(ledger)

(***************************************************************************)
(* C30: install followed by remove is a round trip.  After a successful    *)
(* system-wide install of N, for any backend, the path recorded in N's     *)
(* record (the system bin path joined with N) is a file that install       *)
(* placed, so that remove(N) finds it, deletes it and returns the ledger   *)
(* to a list without a record for N.                                       *)
(***************************************************************************)
C30_RecordedPathInstalled ==
    \A p \in Procs :
        Upserted(inv[p]) =>
            /\ ledger.kind = "yaml"
            /\ \E i \in Named(ledger, inv[p].name) :
                  /\ ledger.recs[i].location = Join(SystemBin, inv[p].name)
                  /\ PathExists(ledger.recs[i].location, artifacts)

(***************************************************************************)
(* C31: for a selected custom manifest, a build_system string that is not  *)
(* one of the nine known backend names gives the backend Unknown and the   *)
(* install ends before the pkg-config step, the dependency check and any   *)
(* build step; a manifest without a build_system string is taken as Make,  *)
(* not Unknown; and for a manifest naming a known backend it is that       *)
(* backend, never Unknown, that reaches the build step.                    *)
(***************************************************************************)
KnownNames ==
    {"make", "autotools", "cargo", "cmake", "meson", "ninja", "nimble", "stack", "pip"}

\* detection has returned and the marker selected was a readable manifest
ManifestDetected(r) ==
    /\ r.op = "install"
    /\ r.content.kind = "manifest" /\ r.content.valid
    /\ \E i \in 1..Len(r.trace) : r.trace[i].step = "detect"

AfterDetect == {"pkg_config", "check_deps", "build", "pip_requirements", "install", "upsert"}

C31_UnknownManifestBackend ==
    \A p \in Procs :
        LET r == inv[p]
            c == r.content
        IN  /\ ManifestDetected(r) =>
                /\ IsManifest(r.build_file)
                /\ (c.has_bs /\ c.build_system \notin KnownNames) =>
                      /\ r.build_system = "Unknown"
                      /\ r.pc \in {"detected", "done"}
                      /\ (r.pc = "done" /\ r.result # "killed") =>
                            r.result = "Ok" /\ r.msg = "Unsupported build system"
                      /\ Steps(r.trace) \cap AfterDetect = {}
                      /\ r.ran = <<>> /\ r.cmds = <<>>
                      /\ ledger = r.ledger0 /\ artifacts = r.artifacts0
                /\ ~c.has_bs => r.build_system = "Make"
                /\ (c.has_bs /\ c.build_system \in KnownNames) =>
                      r.build_system = NamedBackend(c.build_system)
                         /\ r.build_system # "Unknown"
            /\ (r.op = "install" /\ "build" \in Steps(r.trace)) =>
                  r.build_system # "Unknown"

\* a manifest naming scons was selected and the install ended right after
\* detection
C31_Witness ==
    \E p \in Procs :
        /\ ManifestDetected(inv[p])
        /\ inv[p].content.has_bs /\ inv[p].content.build_system = "scons"
        /\ inv[p].build_system = "Unknown"
        /\ inv[p].pc = "done" /\ inv[p].msg = "Unsupported build system"
        /\ inv[p].trace[Len(inv[p].trace)].step = "detect"

=============================================================================
